---- MODULE Spec2Model ----
(***************************************************************************)
(* A model of classApi.js: the data-access helpers of the Classroom Points *)
(* application over a document store (classes/{classId} and                *)
(* classes/{classId}/students/{studentId}).                                *)
(*                                                                         *)
(* The store is the state.  Every exported async function is a sequence of *)
(* steps of a caller, one step per awaited backend operation: the step     *)
(* takes effect atomically in the store, and steps of different callers    *)
(* interleave.  Local computation between two awaits belongs to the step   *)
(* of the await that follows it.                                           *)
(***************************************************************************)
EXTENDS Integers, Sequences, FiniteSets, TLC

\* classes:  the ids of the class documents present (classes/{classId})
\* students: the document at classes/{classId}/students/{studentId}
\* pc, loc:  each caller's place in the function it runs, and its locals
\* run:      a history variable, the run of incrementPoints calls under way
VARIABLES classes, students, pc, loc, run

vars == <<classes, students, pc, loc, run>>

(***************************************************************************)
(* Bounds of the model.                                                    *)
(***************************************************************************)
\* students per class in the specifications about deleteClass
NumStudents == 3
\* the per-commit operation limit (400 in classApi.js and in the backend),
\* scaled down so that rosters below, at and above it are reachable
BatchCap == 2
\* stored points are kept below this by the guards of the point actions
MaxPoints == 2
\* the longest run of consecutive incrementPoints calls that is counted
MaxCalls == 2

(***************************************************************************)
(* JavaScript values.  A field that is absent from an object reads as      *)
(* undefined, so an object is a record holding Undef in its absent fields. *)
(***************************************************************************)
Undef == [t |-> "undefined"]
Num(n) == [t |-> "number", v |-> n]
Str(s) == [t |-> "string", v |-> s]
Points(d, tt) == [t |-> "object", daily |-> d, total |-> tt]
Extra(p) == [t |-> "object", pet |-> p]

\* x is falsy (the left operand of || is skipped)
Falsy(x) == x = Undef \/ x = Num(0) \/ x = Str("")
\* a || b
Or(a, b) == IF Falsy(a) THEN b ELSE a
\* a ?? b
Coalesce(a, b) == IF a = Undef THEN b ELSE a
\* o?.daily and o?.total: undefined unless o is an object holding the field
DailyOf(o) == IF o.t = "object" THEN o.daily ELSE Undef
TotalOf(o) == IF o.t = "object" THEN o.total ELSE Undef

Max(a, b) == IF a >= b THEN a ELSE b

\* the number of Number(n) || 0: NaN (undefined, an object, a name) gives 0
NumberOr0(n) == IF n.t = "number" THEN n.v ELSE 0

\* export const toInt = (n) => Math.max(0, Math.trunc(Number(n) || 0))
toInt(n) == Max(0, NumberOr0(n))

(***************************************************************************)
(* Documents.  A student document holds the fields the module writes: id,  *)
(* name, points and one freeform field (pet).                              *)
(***************************************************************************)
ClassIds == {"A", "B"}
SidNames == <<"s1", "s2", "s3", "s4", "s5", "s6">>
StudentIds == {SidNames[k] : k \in 1..NumStudents}

NoDoc == [exists |-> FALSE]
Doc(id, name, points, pet) ==
    [exists |-> TRUE, id |-> id, name |-> name, points |-> points, pet |-> pet]
\* the fields of a write: Undef in a field the write does not name
Fields(id, name, points, pet) == [id |-> id, name |-> name, points |-> points, pet |-> pet]

\* setDoc(ref, fields, {merge: true}): the named fields are written, the
\* others keep their value; an absent document is created
Merge(d, f) ==
    LET old == IF d.exists THEN d ELSE Doc(Undef, Undef, Undef, Undef)
    IN  Doc(Coalesce(f.id, old.id), Coalesce(f.name, old.name),
            Coalesce(f.points, old.points), Coalesce(f.pet, old.pet))

\* getStudent: snap.exists() ? {id: snap.id, ...snap.data()} : null
getStudent(c, s) == students[c][s]

\* setStudent: the store after the merge-write
setStudent(c, s, f) ==
    [students EXCEPT ![c][s] = Merge(students[c][s], f)]

\* the ids of the documents under classes/c/students, in document order
RECURSIVE RosterFrom(_, _)
RosterFrom(c, k) ==
    IF k > Len(SidNames) THEN <<>>
    ELSE IF SidNames[k] \in StudentIds /\ students[c][SidNames[k]].exists
         THEN <<SidNames[k]>> \o RosterFrom(c, k + 1)
         ELSE RosterFrom(c, k + 1)
Roster(c) == RosterFrom(c, 1)

(***************************************************************************)
(* normalizeStudent and the entries handed to saveStudentsBatch.  An entry *)
(* is {id, name, daily, total, points, _extra}; points is undefined, a     *)
(* number (the legacy shape) or {daily, total}.                            *)
(***************************************************************************)
Entry(id, name, daily, total, points, extra) ==
    [id |-> id, name |-> name, daily |-> daily, total |-> total,
     points |-> points, extra |-> extra]

\* function normalizeStudent(s): {...base, id: s.id, points, ...s._extra}
normalizeStudent(s) ==
    LET daily == Coalesce(s.daily, DailyOf(s.points))
        total == Coalesce(Coalesce(TotalOf(s.points), s.total), s.points)
    IN  Fields(s.id, Coalesce(s.name, Str("")),
               Points(Num(toInt(Or(daily, Num(0)))), Num(toInt(Or(total, Num(0))))),
               IF s.extra.t = "object" THEN s.extra.pet ELSE Undef)

(***************************************************************************)
(* Write batches.  A batch is the sequence of its operations; commit       *)
(* applies them in order, all or none, and the backend refuses a batch of  *)
(* more than BatchCap operations.                                          *)
(***************************************************************************)
DeleteOp(id) == [kind |-> "delete", id |-> id, f |-> Fields(Undef, Undef, Undef, Undef)]
SetOp(id, f) == [kind |-> "set", id |-> id, f |-> f]

ApplyOp(docs, op) ==
    IF op.kind = "delete" THEN [docs EXCEPT ![op.id] = NoDoc]
    ELSE [docs EXCEPT ![op.id] = Merge(docs[op.id], op.f)]

RECURSIVE ApplyBatch(_, _, _)
ApplyBatch(docs, batch, k) ==
    IF k > Len(batch) THEN docs
    ELSE ApplyBatch(ApplyOp(docs, batch[k]), batch, k + 1)

\* batch.commit() is accepted by the backend
CommitOK(batch) == Len(batch) <= BatchCap
\* the store after batch.commit() of a batch under classes/c/students
Committed(c, batch) == [students EXCEPT ![c] = ApplyBatch(students[c], batch, 1)]

\* function required(what) { throw new Error(`Missing: ${what}`) }
required(what) == "Missing: " \o what

\* the forEach body returning early on an entry without id, not throwing
RECURSIVE QueueSets_skip(_, _, _, _)
QueueSets_skip(entries, k, what, acc) ==
    IF k > Len(entries) THEN acc
    ELSE IF Falsy(entries[k].id)
         THEN QueueSets_skip(entries, k + 1, what, acc)
         ELSE QueueSets_skip(entries, k + 1, what,
                 [acc EXCEPT !.batch =
                     Append(@, SetOp(entries[k].id.v, normalizeStudent(entries[k])))])

\* adds.forEach / edits.forEach: queue one merge-write per entry, and throw
\* at the first entry whose id is falsy
RECURSIVE QueueSets(_, _, _, _)
QueueSets(entries, k, what, acc) ==
    IF acc.err # "" \/ k > Len(entries) THEN acc
    ELSE IF Falsy(entries[k].id)
         THEN [acc EXCEPT !.err = required(what)]
         ELSE QueueSets(entries, k + 1, what,
                 [acc EXCEPT !.batch =
                     Append(@, SetOp(entries[k].id.v, normalizeStudent(entries[k])))])

RECURSIVE QueueDeletes(_, _)
QueueDeletes(dels, k) ==
    IF k > Len(dels) THEN <<>>
    ELSE <<DeleteOp(dels[k])>> \o QueueDeletes(dels, k + 1)

\* the batch saveStudentsBatch has built when it reaches batch.commit(), or
\* the error thrown on the way
BuildBatch(adds, edits, dels) ==
    LET a0 == [err |-> "", batch |-> QueueDeletes(dels, 1)]
        a1 == QueueSets(adds, 1, "adds[].id", a0)
    IN  QueueSets(edits, 1, "edits[].id", a1)

(***************************************************************************)
(* Callers.  pc[p] is where caller p stands in the function it runs and    *)
(* loc[p] holds that call's arguments and locals.                          *)
(***************************************************************************)
Callers == {"u1", "u2"}

Idle == [op |-> "none"]
ZeroPoints == Points(Num(0), Num(0))

\* const pts = cur.points || { daily: 0, total: 0 }, with cur = {} for null
PtsOf(cur) == IF cur.exists THEN Or(cur.points, ZeroPoints) ELSE ZeroPoints

Goto(p, where, l) ==
    /\ pc' = [pc EXCEPT ![p] = where]
    /\ loc' = [loc EXCEPT ![p] = l]

\* a deleteClass of class c is under way in some other caller
DeleteUnderWay(p, c) ==
    \E q \in Callers \ {p} :
        /\ pc[q] \in {"del_loop", "del_doc"}
        /\ loc[q].classId = c

\* ---------- createClass ----------
createClass(p, displayName, idPrefix) ==
    /\ pc[p] = "idle"
    /\ IF displayName = "" \/ idPrefix = ""
       THEN /\ Goto(p, "threw", [op |-> "createClass", classId |-> displayName,
                                 err |-> "displayName and idPrefix required"])
            /\ UNCHANGED classes
       ELSE /\ classes' = classes \cup {displayName}
            /\ Goto(p, "done", [op |-> "createClass", classId |-> displayName, err |-> ""])
    /\ UNCHANGED students

\* ---------- setStudent, called directly ----------
setStudentCall(p, c, s, f) ==
    /\ pc[p] = "idle"
    /\ students' = setStudent(c, s, f)
    /\ Goto(p, "done", [op |-> "setStudent", classId |-> c, studentId |-> s,
                        overlap |-> DeleteUnderWay(p, c), err |-> ""])
    /\ UNCHANGED classes

\* ---------- incrementPoints ----------
\* the student read again when the write is made, as a transaction would
CurOf_fresh(p) == getStudent(loc[p].classId, loc[p].studentId)

\* the snapshot the write is computed from
CurOf(p) == loc[p].cur

\* const cur = await getStudent(db, classId, studentId) || {}
incrementPoints_get(p, c, s, d, tt) ==
    /\ pc[p] = "idle"
    /\ toInt(PtsOf(getStudent(c, s)).daily) + d <= MaxPoints
    /\ toInt(PtsOf(getStudent(c, s)).total) + tt <= MaxPoints
    /\ Goto(p, "inc_set", [op |-> "incrementPoints", classId |-> c, studentId |-> s,
                           daily |-> d, total |-> tt, cur |-> getStudent(c, s),
                           overlap |-> DeleteUnderWay(p, c), err |-> ""])
    /\ UNCHANGED <<classes, students>>

\* await setStudent(..., { points: { daily: toInt(pts.daily) + daily, ... } })
incrementPoints_set(p) ==
    /\ pc[p] = "inc_set"
    /\ LET pts == PtsOf(CurOf(p))
       IN  students' = setStudent(loc[p].classId, loc[p].studentId,
               Fields(Undef, Undef,
                      Points(Num(toInt(pts.daily) + loc[p].daily),
                             Num(toInt(pts.total) + loc[p].total)), Undef))
    /\ Goto(p, "done", loc[p])
    /\ UNCHANGED classes

\* ---------- resetDaily / resetTotal ----------
\* const cur = await getStudent(...); if (!cur) return;
reset_get(p, which, c, s) ==
    /\ pc[p] = "idle"
    /\ Goto(p, IF getStudent(c, s).exists THEN "reset_set" ELSE "done",
            [op |-> which, classId |-> c, studentId |-> s, cur |-> getStudent(c, s),
             overlap |-> DeleteUnderWay(p, c), err |-> ""])
    /\ UNCHANGED <<classes, students>>

\* the points resetDaily / resetTotal write back
ResetPoints(which, cur) ==
    IF which = "resetDaily"
    THEN Points(Num(0), Num(toInt(TotalOf(cur.points))))
    ELSE Points(Num(toInt(DailyOf(cur.points))), Num(0))

reset_set(p) ==
    /\ pc[p] = "reset_set"
    /\ students' = setStudent(loc[p].classId, loc[p].studentId,
           Fields(Undef, Undef, ResetPoints(loc[p].op, loc[p].cur), Undef))
    /\ Goto(p, "done", loc[p])
    /\ UNCHANGED classes

\* ---------- addDailyToAll ----------
\* const snap = await getDocs(collection(db, "classes", classId, "students"))
addDailyToAll_get(p, c) ==
    /\ pc[p] = "idle"
    /\ \A s \in StudentIds :
          /\ toInt(PtsOf(students[c][s]).daily) + 1 <= MaxPoints
          /\ toInt(PtsOf(students[c][s]).total) + 1 <= MaxPoints
    /\ Goto(p, "ada_commit", [op |-> "addDailyToAll", classId |-> c,
                              docs |-> Roster(c), snap |-> students[c],
                              overlap |-> DeleteUnderWay(p, c), err |-> ""])
    /\ UNCHANGED <<classes, students>>

\* snap.forEach(d => batch.set(ref, {...s, points: {...}}, {merge: true}))
RECURSIVE AddDailyBatch(_, _, _)
AddDailyBatch(docs, snap, k) ==
    IF k > Len(docs) THEN <<>>
    ELSE LET d   == snap[docs[k]]
             pts == Or(d.points, ZeroPoints)
         IN  <<SetOp(docs[k],
                     Fields(d.id, d.name,
                            Points(Num(toInt(pts.daily) + 1), Num(toInt(pts.total) + 1)),
                            d.pet))>>
             \o AddDailyBatch(docs, snap, k + 1)

\* await batch.commit()
addDailyToAll_commit(p) ==
    /\ pc[p] = "ada_commit"
    /\ LET batch == AddDailyBatch(loc[p].docs, loc[p].snap, 1)
       IN  IF CommitOK(batch)
           THEN /\ students' = Committed(loc[p].classId, batch)
                /\ Goto(p, "done", loc[p])
           ELSE /\ UNCHANGED students
                /\ Goto(p, "threw", [loc[p] EXCEPT !.err = "batch too large"])
    /\ UNCHANGED classes

\* ---------- saveStudentsBatch ----------
\* the synchronous part: build the batch, or throw
saveStudentsBatch_build(p, c, adds, edits, dels) ==
    /\ pc[p] = "idle"
    /\ LET b == BuildBatch(adds, edits, dels)
       IN  Goto(p, IF b.err = "" THEN "save_commit" ELSE "threw",
                [op |-> "saveStudentsBatch", classId |-> c, adds |-> adds,
                 edits |-> edits, dels |-> dels, batch |-> b.batch,
                 overlap |-> DeleteUnderWay(p, c), err |-> b.err])
    /\ UNCHANGED <<classes, students>>

\* await batch.commit()
saveStudentsBatch_commit(p) ==
    /\ pc[p] = "save_commit"
    /\ IF CommitOK(loc[p].batch)
       THEN /\ students' = Committed(loc[p].classId, loc[p].batch)
            /\ Goto(p, "done", loc[p])
       ELSE /\ UNCHANGED students
            /\ Goto(p, "threw", [loc[p] EXCEPT !.err = "batch too large"])
    /\ UNCHANGED classes

\* ---------- deleteClass ----------
\* const students = await getDocs(collection(db, "classes", classId, "students"))
deleteClass_get(p, c) ==
    /\ pc[p] = "idle"
    /\ Goto(p, "del_loop", [op |-> "deleteClass", classId |-> c, docs |-> Roster(c),
                            i |-> 0, ops |-> 0, err |-> ""])
    /\ UNCHANGED <<classes, students>>

\* the for loop with the batch handle renewed before the commit, so that the
\* deletes queued so far are dropped
RECURSIVE RunLoop_dropChunk(_, _, _, _)
RunLoop_dropChunk(docs, i, ops, batch) ==
    IF i = Len(docs) THEN [i |-> i, ops |-> ops, batch |-> batch, final |-> TRUE]
    ELSE IF (ops + 1) % BatchCap = 0
         THEN [i |-> i + 1, ops |-> ops + 1, batch |-> <<>>, final |-> FALSE]
         ELSE RunLoop_dropChunk(docs, i + 1, ops + 1, Append(batch, DeleteOp(docs[i + 1])))

\* for (const d of students.docs) { batch.delete(...);
\*   if (++ops % 400 === 0) { await batch.commit(); batch = writeBatch(db); } }
\* run from document i with the batch given, up to the next commit: the
\* batch to commit there, and whether it is the commit after the loop
RECURSIVE RunLoop(_, _, _, _)
RunLoop(docs, i, ops, batch) ==
    IF i = Len(docs) THEN [i |-> i, ops |-> ops, batch |-> batch, final |-> TRUE]
    ELSE IF (ops + 1) % BatchCap = 0
         THEN [i |-> i + 1, ops |-> ops + 1,
               batch |-> Append(batch, DeleteOp(docs[i + 1])), final |-> FALSE]
         ELSE RunLoop(docs, i + 1, ops + 1, Append(batch, DeleteOp(docs[i + 1])))

\* the store after the commit the loop has reached, with the last commit
\* (line 110) left out
AfterDeleteCommit_noFinal(c, r) ==
    IF r.final THEN students ELSE Committed(c, r.batch)

\* the store after the commit the loop has reached
AfterDeleteCommit(c, r) == Committed(c, r.batch)

\* await batch.commit(), inside the loop or after it
deleteClass_commit(p) ==
    /\ pc[p] = "del_loop"
    /\ LET r == RunLoop(loc[p].docs, loc[p].i, loc[p].ops, <<>>)
       IN  IF CommitOK(r.batch)
           THEN /\ students' = AfterDeleteCommit(loc[p].classId, r)
                /\ Goto(p, IF r.final THEN "del_doc" ELSE "del_loop",
                        [loc[p] EXCEPT !.i = r.i, !.ops = r.ops])
           ELSE /\ UNCHANGED students
                /\ Goto(p, "threw", [loc[p] EXCEPT !.err = "batch too large"])
    /\ UNCHANGED classes

\* await deleteDoc(doc(db, "classes", classId))
deleteClass_doc(p) ==
    /\ pc[p] = "del_doc"
    /\ classes' = classes \ {loc[p].classId}
    /\ Goto(p, "done", loc[p])
    /\ UNCHANGED students

\* ---------- the end of a call ----------
\* the caller stops in the middle of a call (a crash, or a backend error
\* raised by the awaited operation): nothing more of the call runs
Crash(p) ==
    /\ pc[p] \in {"del_loop", "del_doc"}
    /\ Goto(p, "stopped", loc[p])
    /\ UNCHANGED <<classes, students>>

\* the promise settles and the caller is free for its next call
Return(p) ==
    /\ pc[p] \in {"done", "threw", "stopped"}
    /\ Goto(p, "idle", Idle)
    /\ UNCHANGED <<classes, students>>

(***************************************************************************)
(* Stores and the run of incrementPoints calls.                            *)
(***************************************************************************)
NoRun == [n |-> 0, classId |-> "", studentId |-> "", daily |-> 0, total |-> 0,
          sumDaily |-> 0, sumTotal |-> 0]

\* a student document as saveStudentsBatch leaves it for an entry with no points
Fresh(s) == Doc(Str(s), Str(""), ZeroPoints, Undef)

NobodyCalls ==
    /\ pc = [p \in Callers |-> "idle"]
    /\ loc = [p \in Callers |-> Idle]
    /\ run = NoRun

\* a student document is present under a class whose document is absent
Orphan(c) == c \notin classes /\ \E s \in StudentIds : students[c][s].exists

(***************************************************************************)
(* DelSpec: one caller, deleteClass and createClass alone, from any roster *)
(***************************************************************************)
InitDel ==
    /\ classes \in SUBSET ClassIds
    /\ students \in [ClassIds -> {[s \in StudentIds |-> IF s \in present THEN Fresh(s) ELSE NoDoc]
                                    : present \in SUBSET StudentIds}]
    /\ NobodyCalls

NextDel ==
    \/ \E c \in ClassIds : deleteClass_get("u1", c) /\ UNCHANGED run
    \/ deleteClass_commit("u1") /\ UNCHANGED run
    \/ deleteClass_doc("u1") /\ UNCHANGED run
    \/ Crash("u1") /\ UNCHANGED run
    \/ Return("u1") /\ UNCHANGED run
    \/ \E c \in ClassIds \cup {""}, pre \in {"", "P"} : createClass("u1", c, pre) /\ UNCHANGED run

DelSpec == InitDel /\ [][NextDel]_vars

\* C2: a deleteClass that runs alone to completion leaves no student
\* document under the class and no class document, whatever the size of the
\* roster, and none of its steps changes a document of another class
DeleteClassRemovesAll ==
    [][\A p \in Callers :
          pc[p] \in {"del_loop", "del_doc"} =>
             /\ \A c \in ClassIds \ {loc[p].classId} :
                   /\ students'[c] = students[c]
                   /\ (c \in classes') = (c \in classes)
             /\ pc'[p] = "done" =>
                   /\ \A s \in StudentIds : ~students'[loc[p].classId][s].exists
                   /\ loc[p].classId \notin classes']_vars

\* a completed deleteClass of a roster above the batch cap and no multiple of it
DeleteClassRemovesAllWitness ==
    /\ pc["u1"] = "done"
    /\ loc["u1"].op = "deleteClass"
    /\ Len(loc["u1"].docs) > BatchCap
    /\ Len(loc["u1"].docs) % BatchCap # 0
    /\ Roster(loc["u1"].classId) = <<>>
    /\ loc["u1"].classId \notin classes
    /\ \E c \in ClassIds \ {loc["u1"].classId} : Roster(c) # <<>>

\* C3: no step of a deleteClass running alone, nor its stopping after any
\* step, makes the class document absent while a student document of the
\* class is present: the class document goes only after every batch of
\* student deletions has committed
DeleteClassNeverOrphans ==
    [][\A c \in ClassIds : Orphan(c)' => Orphan(c)]_vars

\* a deleteClass stopped after its first batch: part of the roster is
\* deleted, the rest and the class document are still there
DeleteClassNeverOrphansWitness ==
    /\ pc["u1"] = "stopped"
    /\ loc["u1"].op = "deleteClass"
    /\ loc["u1"].i > 0
    /\ Len(Roster(loc["u1"].classId)) > 0
    /\ Len(Roster(loc["u1"].classId)) < Len(loc["u1"].docs)
    /\ loc["u1"].classId \in classes

(***************************************************************************)
(* Spec: one caller running the point functions one call after another on  *)
(* class A, from a store whose points are non-negative integers.           *)
(***************************************************************************)
Min(a, b) == IF a <= b THEN a ELSE b

\* the deltas handed to incrementPoints: the default {1, 1} and others,
\* negative ones included
Deltas == {<<1, 1>>, <<2, 2>>, <<0, 1>>, <<-1, -1>>}

\* the batches handed to saveStudentsBatch in this specification
PointBatches ==
    { [adds  |-> <<Entry(Str("s1"), Str("Ann"), Undef, Undef, Points(Num(1), Num(2)), Undef)>>,
       edits |-> <<>>, dels |-> <<"s2">>],
      [adds  |-> <<Entry(Str("s2"), Undef, Num(-1), Num(1), Undef, Undef)>>,
       edits |-> <<>>, dels |-> <<>>],
      [adds  |-> <<>>, edits |-> <<>>, dels |-> <<"s1">>] }

InitPoints ==
    /\ classes = ClassIds
    /\ \E a1 \in {NoDoc, Fresh("s1")}, a2 \in {NoDoc, Fresh("s2")} :
          students = [c \in ClassIds |-> [s \in StudentIds |->
              IF c = "A" /\ s = "s1" THEN a1
              ELSE IF c = "A" /\ s = "s2" THEN a2
              ELSE IF c = "B" /\ s = "s1"
                   THEN Doc(Str("s1"), Str("Ann"), Points(Num(1), Num(1)), Undef)
                   ELSE NoDoc]]
    /\ NobodyCalls

\* the daily and total a student starts a run of incrementPoints calls
\* from: its stored points, or {0, 0} when it does not exist
StoredDaily(d) == IF d.exists /\ d.points.t = "object" THEN d.points.daily.v ELSE 0
StoredTotal(d) == IF d.exists /\ d.points.t = "object" THEN d.points.total.v ELSE 0

\* run follows the calls of incrementPoints with non-negative deltas that
\* caller p makes one after another on one student, nothing else writing
\* in between: where the student started and the deltas added since
Track(p) ==
    run' = IF pc[p] = "inc_set" /\ pc'[p] = "done"
           THEN IF loc[p].daily >= 0 /\ loc[p].total >= 0
                THEN IF /\ run.n > 0
                        /\ run.classId = loc[p].classId
                        /\ run.studentId = loc[p].studentId
                     THEN [run EXCEPT !.n = Min(@ + 1, MaxCalls),
                                      !.sumDaily = @ + loc[p].daily,
                                      !.sumTotal = @ + loc[p].total]
                     ELSE [n |-> 1, classId |-> loc[p].classId,
                           studentId |-> loc[p].studentId,
                           daily |-> StoredDaily(students[loc[p].classId][loc[p].studentId]),
                           total |-> StoredTotal(students[loc[p].classId][loc[p].studentId]),
                           sumDaily |-> loc[p].daily, sumTotal |-> loc[p].total]
                ELSE NoRun
           ELSE IF students' # students THEN NoRun ELSE run

NextPoints ==
    \/ \E d \in Deltas, s \in {"s1", "s2"} :
          incrementPoints_get("u1", "A", s, d[1], d[2]) /\ Track("u1")
    \/ incrementPoints_set("u1") /\ Track("u1")
    \/ \E which \in {"resetDaily", "resetTotal"}, s \in {"s1", "s2"} :
          reset_get("u1", which, "A", s) /\ Track("u1")
    \/ reset_set("u1") /\ Track("u1")
    \/ \E c \in ClassIds : addDailyToAll_get("u1", c) /\ Track("u1")
    \/ addDailyToAll_commit("u1") /\ Track("u1")
    \/ \E b \in PointBatches :
          saveStudentsBatch_build("u1", "A", b.adds, b.edits, b.dels) /\ Track("u1")
    \/ saveStudentsBatch_commit("u1") /\ Track("u1")
    \/ Return("u1") /\ Track("u1")

Spec == InitPoints /\ [][NextPoints]_vars

\* every stored points.daily and points.total is a number >= 0
NonNegative(d) ==
    d.exists =>
       /\ d.points.t = "object"
       /\ d.points.daily.t = "number" /\ d.points.daily.v >= 0
       /\ d.points.total.t = "number" /\ d.points.total.v >= 0

\* C1: after any sequence of saveStudentsBatch, incrementPoints (any integer
\* deltas), resetDaily, resetTotal and addDailyToAll calls, every stored
\* student has points.daily >= 0 and points.total >= 0
PointsNeverNegative ==
    \A c \in ClassIds, s \in StudentIds : NonNegative(students[c][s])

\* C5: n incrementPoints calls run one after another on one student with
\* non-negative deltas leave its points at the initial points plus the sums
\* of the deltas, a student that does not exist starting at {0, 0}
IncrementsAddUp ==
    run.n > 0 =>
       LET d == students[run.classId][run.studentId]
       IN  /\ d.exists
           /\ d.points = Points(Num(run.daily + run.sumDaily), Num(run.total + run.sumTotal))

\* C7: resetDaily on an existing student sets points.daily to 0 and leaves
\* points.total and every other field as they were, resetTotal likewise
\* with daily and total exchanged, and for a student that does not exist
\* neither writes anything
ResetKeepsTheRest ==
    [][\A p \in Callers :
          /\ (pc[p] = "reset_set" /\ pc'[p] = "done") =>
                LET old == students[loc[p].classId][loc[p].studentId]
                    new == students'[loc[p].classId][loc[p].studentId]
                IN  /\ old.exists /\ new.exists
                    /\ new.id = old.id /\ new.name = old.name /\ new.pet = old.pet
                    /\ loc[p].op = "resetDaily" =>
                          new.points.daily = Num(0) /\ new.points.total = old.points.total
                    /\ loc[p].op = "resetTotal" =>
                          new.points.total = Num(0) /\ new.points.daily = old.points.daily
                    /\ \A c \in ClassIds, s \in StudentIds :
                          <<c, s>> # <<loc[p].classId, loc[p].studentId>> =>
                             students'[c][s] = students[c][s]
          /\ (pc[p] = "idle" /\ pc'[p] = "done"
                /\ loc'[p].op \in {"resetDaily", "resetTotal"}) =>
                /\ ~students[loc'[p].classId][loc'[p].studentId].exists
                /\ students' = students]_vars

\* C8: the commit of addDailyToAll, nobody else writing, leaves every
\* student of the class with daily and total one greater than before, in
\* one step, adds and removes no student and changes no other class
AddDailyAddsOne ==
    [][\A p \in Callers :
          (pc[p] = "ada_commit" /\ pc'[p] = "done") =>
             /\ \A c \in ClassIds \ {loc[p].classId} : students'[c] = students[c]
             /\ \A s \in StudentIds :
                   LET old == students[loc[p].classId][s]
                       new == students'[loc[p].classId][s]
                   IN  /\ new.exists = old.exists
                       /\ old.exists =>
                             /\ new.points = Points(Num(old.points.daily.v + 1),
                                                    Num(old.points.total.v + 1))
                             /\ new.id = old.id /\ new.name = old.name
                             /\ new.pet = old.pet]_vars

(***************************************************************************)
(* SaveSpec: one caller running saveStudentsBatch on class A with entries  *)
(* of every shape normalizeStudent reconciles, and entries without id.     *)
(***************************************************************************)
\* {id, name, points: {daily, total}}
eFull == Entry(Str("s1"), Str("Ann"), Undef, Undef, Points(Num(2), Num(1)), Undef)
\* {id, name, daily, total}
eFlat == Entry(Str("s2"), Str("Bob"), Num(1), Num(2), Undef, Undef)
\* {id, points: 2}
eLegacy == Entry(Str("s2"), Undef, Undef, Undef, Num(2), Undef)
\* {name, daily, total}: no id
eNoId == Entry(Undef, Str("Bob"), Num(1), Num(1), Undef, Undef)
\* {id: "", name}
eEmptyId == Entry(Str(""), Str("Bob"), Undef, Undef, Undef, Undef)
\* {id, name}
eNameOnly == Entry(Str("s1"), Str("Bob"), Undef, Undef, Undef, Undef)
\* {id, _extra: {pet}}
eExtraOnly == Entry(Str("s1"), Undef, Undef, Undef, Undef, Extra(Str("dog")))

AddEntries == {eFull, eFlat, eLegacy, eNoId}
EditEntries == {eNameOnly, eExtraOnly, eFlat, eNoId, eEmptyId}

UpTo2(S) == {<<>>} \cup {<<x>> : x \in S} \cup {<<x, y>> : x \in S, y \in S}
UpTo1(S) == {<<>>} \cup {<<x>> : x \in S}

InitSave ==
    /\ classes = ClassIds
    /\ \E a1 \in {NoDoc, Doc(Str("s1"), Str("Ann"), Points(Num(2), Num(1)), Str("cat"))},
          a2 \in {NoDoc, Fresh("s2")} :
          students = [c \in ClassIds |-> [s \in StudentIds |->
              IF c = "A" /\ s = "s1" THEN a1
              ELSE IF c = "A" /\ s = "s2" THEN a2
              ELSE IF c = "B" /\ s = "s1" THEN Fresh("s1")
              ELSE NoDoc]]
    /\ NobodyCalls

NextSave ==
    \/ \E adds \in UpTo2(AddEntries), edits \in UpTo1(EditEntries),
          dels \in UpTo1({"s1", "s2"}) :
          saveStudentsBatch_build("u1", "A", adds, edits, dels) /\ UNCHANGED run
    \/ saveStudentsBatch_commit("u1") /\ UNCHANGED run
    \/ Return("u1") /\ UNCHANGED run

SaveSpec == InitSave /\ [][NextSave]_vars

\* some entry of the sequence has no (truthy) id
LacksId(entries) == \E k \in 1..Len(entries) : Falsy(entries[k].id)

\* C4: a saveStudentsBatch call with an adds or edits entry that lacks an
\* id fails with a 'Missing' error and commits nothing, neither then nor
\* later: the store stays as it was
MissingIdCommitsNothing ==
    [][\A p \in Callers :
          /\ (pc[p] = "idle" /\ loc'[p].op = "saveStudentsBatch"
                /\ (LacksId(loc'[p].adds) \/ LacksId(loc'[p].edits))) =>
                /\ pc'[p] = "threw"
                /\ loc'[p].err \in {required("adds[].id"), required("edits[].id")}
                /\ students' = students /\ classes' = classes
          /\ (pc[p] = "threw" /\ loc[p].op = "saveStudentsBatch") =>
                students' = students /\ classes' = classes]_vars

\* a call that failed on its second add: the document of the first,
\* well-formed add is not created and the one named in dels is still there
MissingIdCommitsNothingWitness ==
    /\ pc["u1"] = "threw"
    /\ loc["u1"].op = "saveStudentsBatch"
    /\ loc["u1"].err = "Missing: adds[].id"
    /\ Len(loc["u1"].adds) = 2
    /\ ~Falsy(loc["u1"].adds[1].id)
    /\ ~students["A"][loc["u1"].adds[1].id.v].exists
    /\ Len(loc["u1"].dels) = 1
    /\ students["A"][loc["u1"].dels[1]].exists

\* C9: an edits entry that names an existing student and carries no daily,
\* total or points leaves the stored points as they were, and one that
\* carries no name leaves the stored name as it was (the student being
\* named by no other operation of the batch)
EditKeepsUnnamedFields ==
    [][\A p \in Callers :
          (pc[p] = "save_commit" /\ pc'[p] = "done") =>
             \A k \in 1..Len(loc[p].edits) :
                LET e   == loc[p].edits[k]
                    old == students[loc[p].classId][e.id.v]
                    new == students'[loc[p].classId][e.id.v]
                IN  (/\ old.exists
                     /\ \A j \in 1..Len(loc[p].dels) : loc[p].dels[j] # e.id.v
                     /\ \A j \in 1..Len(loc[p].adds) : loc[p].adds[j].id # e.id
                     /\ \A j \in 1..Len(loc[p].edits) : j # k => loc[p].edits[j].id # e.id) =>
                       /\ (e.daily = Undef /\ e.total = Undef /\ e.points = Undef) =>
                             new.points = old.points
                       /\ e.name = Undef => new.name = old.name]_vars

(***************************************************************************)
(* RaceSpec: two callers running incrementPoints on student s1 of class A, *)
(* their reads and writes interleaving.                                    *)
(***************************************************************************)
InitRace ==
    /\ classes = ClassIds
    /\ \E a1 \in {NoDoc, Fresh("s1")}, a2 \in {NoDoc, Fresh("s2")} :
          students = [c \in ClassIds |-> [s \in StudentIds |->
              IF c = "A" /\ s = "s1" THEN a1
              ELSE IF c = "A" /\ s = "s2" THEN a2
              ELSE NoDoc]]
    /\ NobodyCalls

NextRace ==
    \/ \E p \in Callers, d \in Deltas :
          incrementPoints_get(p, "A", "s1", d[1], d[2]) /\ UNCHANGED run
    \/ \E p \in Callers : incrementPoints_set(p) /\ UNCHANGED run
    \/ \E p \in Callers : Return(p) /\ UNCHANGED run

RaceSpec == InitRace /\ [][NextRace]_vars

\* callers p and q have both completed an incrementPoints call on the same
\* student with positive deltas, each computed from the same read of
\* non-negative points
RacedIncrements(p, q) ==
    /\ p # q
    /\ pc[p] = "done" /\ loc[p].op = "incrementPoints"
    /\ pc[q] = "done" /\ loc[q].op = "incrementPoints"
    /\ loc[p].classId = loc[q].classId /\ loc[p].studentId = loc[q].studentId
    /\ loc[p].cur = loc[q].cur
    /\ NonNegative(loc[p].cur)
    /\ loc[p].daily > 0 /\ loc[p].total > 0 /\ loc[q].daily > 0 /\ loc[q].total > 0

\* C6: two incrementPoints calls on one student whose reads both come
\* before either write lose an update: the points both calls leave are
\* smaller than the initial points plus the deltas of both
ConcurrentIncrementsLoseUpdate ==
    \A p, q \in Callers :
       RacedIncrements(p, q) =>
          LET d == students[loc[p].classId][loc[p].studentId]
          IN  /\ StoredDaily(d) < StoredDaily(loc[p].cur) + loc[p].daily + loc[q].daily
              /\ StoredTotal(d) < StoredTotal(loc[p].cur) + loc[p].total + loc[q].total

\* the two calls of {1, 1} on a student at {0, 0} that leave it at {1, 1}
ConcurrentIncrementsLoseUpdateWitness ==
    /\ RacedIncrements("u1", "u2")
    /\ loc["u1"].cur = Fresh("s1")
    /\ loc["u1"].daily = 1 /\ loc["u2"].daily = 1
    /\ students["A"]["s1"].points = Points(Num(1), Num(1))

(***************************************************************************)
(* DelRaceSpec: two callers, deleteClass of class A interleaving with the  *)
(* student writes of the other caller.                                     *)
(***************************************************************************)
InitDelRace ==
    /\ classes = ClassIds
    /\ \E present \in SUBSET StudentIds :
          students = [c \in ClassIds |-> [s \in StudentIds |->
              IF c = "A" /\ s \in present THEN Fresh(s) ELSE NoDoc]]
    /\ NobodyCalls

NextDelRace ==
    \/ \E p \in Callers : deleteClass_get(p, "A") /\ UNCHANGED run
    \/ \E p \in Callers : deleteClass_commit(p) /\ UNCHANGED run
    \/ \E p \in Callers : deleteClass_doc(p) /\ UNCHANGED run
    \/ \E p \in Callers : setStudentCall(p, "A", "s1", Fields(Undef, Str("Ann"), Undef, Undef))
                          /\ UNCHANGED run
    \/ \E p \in Callers : incrementPoints_get(p, "A", "s1", 1, 1) /\ UNCHANGED run
    \/ \E p \in Callers : incrementPoints_set(p) /\ UNCHANGED run
    \/ \E p \in Callers : addDailyToAll_get(p, "A") /\ UNCHANGED run
    \/ \E p \in Callers : addDailyToAll_commit(p) /\ UNCHANGED run
    \/ \E p \in Callers : saveStudentsBatch_build(p, "A", <<eFlat>>, <<>>, <<>>) /\ UNCHANGED run
    \/ \E p \in Callers : saveStudentsBatch_commit(p) /\ UNCHANGED run
    \/ \E p \in Callers : Return(p) /\ UNCHANGED run

DelRaceSpec == InitDelRace /\ [][NextDelRace]_vars

StudentWrites == {"setStudent", "incrementPoints", "addDailyToAll", "saveStudentsBatch"}

\* C10: when a student write on a class, issued by another caller while a
\* deleteClass of that class is under way, and the deleteClass have both
\* completed, no student document of the class is left without its class
\* document
NoOrphanAfterRace ==
    \A p, q \in Callers :
       (/\ p # q
        /\ pc[p] = "done" /\ loc[p].op = "deleteClass"
        /\ pc[q] = "done" /\ loc[q].op \in StudentWrites
        /\ loc[q].classId = loc[p].classId
        /\ loc[q].overlap) => ~Orphan(loc[p].classId)

====
